---- MODULE Spec2Model ----
\* A model of the ktx2 container parser (src/src/lib.rs): Reader::new and its
\* accessors, the data-format-descriptor block iterator, the key/value
\* iterator and the SampleInformation codec.
\*
\* Numbers wider than a byte are kept as little-endian sequences of 16-bit
\* limbs (u16 = 1 limb, u32 = 2, u64 = usize = 4), so that the 32- and 64-bit
\* checked additions of the code overflow exactly where the code's do.
EXTENDS Integers, Sequences, FiniteSets, TLC

VARIABLES
    input,      \* the buffer given to Reader::new
    reader,     \* the result of Reader::new
    out,        \* what the last accessor call returned
    levelsLog,  \* what the calls of levels() returned, in order
    kvSection,  \* the bytes a KeyValueDataIterator was created over
    kvPieces,   \* how those bytes were put together
    kvData,     \* KeyValueDataIterator::data
    kvLog,      \* what the calls of KeyValueDataIterator::next returned, in order
    dfdSection, \* the bytes a DataFormatDescriptorIterator was created over
    dfdData,    \* DataFormatDescriptorIterator::data
    dfdLog,     \* what the calls of DataFormatDescriptorIterator::next returned
    siTrace,    \* a SampleInformation or its bytes, and what the codec made of it
    codecTrace, \* a Header, a basic descriptor header or bytes, and what the codecs made of it
    samplesSection, \* the bytes a SampleInformationIterator was created over
    samplesData,    \* SampleInformationIterator::data
    samplesLog      \* what the calls of SampleInformationIterator::next returned, in order

vars == <<input, reader, out, levelsLog, kvSection, kvPieces, kvData, kvLog,
          dfdSection, dfdData, dfdLog, siTrace, codecTrace,
          samplesSection, samplesData, samplesLog>>

readerVars == <<input, reader, out, levelsLog>>
kvVars == <<kvSection, kvPieces, kvData, kvLog>>
dfdVars == <<dfdSection, dfdData, dfdLog>>
siVars == <<siTrace>>
codecVars == <<codecTrace>>
samplesVars == <<samplesSection, samplesData, samplesLog>>

-----------------------------------------------------------------------------
\* Bounds of the model

\* level_count ranges over 0..MaxLevels (and one huge value)
MaxLevels == 2
\* bytes of payload after the largest level-index table
TailLen == 16
\* number of levels() calls that are recorded
MaxLevelsCalls == 2
\* number of records or malformed chunks a key/value section is made of
MaxPieces == 3
\* number of blocks or malformed chunks a format-description section is made of
MaxBlocks == 3
\* number of codec applications that are recorded
MaxCodecSteps == 3
\* number of entries or truncated tails a sample-information stream is made of
MaxSamples == 3

-----------------------------------------------------------------------------
\* Fixed-width unsigned integers as little-endian 16-bit limbs

W16 == 65536

U32 == 2
U64 == 4
USIZE == 4

\* u16/u32/u64::from_le_bytes: bytes b[0], b[1], ... least significant first
from_le_bytes(b) == [i \in 1..(Len(b) \div 2) |-> b[2 * i - 1] + 256 * b[2 * i]]

\* u16/u32/u64::to_le_bytes
to_le_bytes(v) ==
    [i \in 1..(2 * Len(v)) |->
        IF i % 2 = 1 THEN v[(i + 1) \div 2] % 256 ELSE v[i \div 2] \div 256]

\* a widening `as` cast (u32 as usize, u32 as u64, usize as u64)
Widen(v, w) == [i \in 1..w |-> IF i <= Len(v) THEN v[i] ELSE 0]

\* a usize value (a length or constant below 2^31) as limbs
Lit(n, w) == [i \in 1..w |-> IF i = 1 THEN n % W16 ELSE IF i = 2 THEN n \div W16 ELSE 0]

\* the value of limbs that are known to fit 31 bits; Huge otherwise
Huge == 2147483647
Val(v) ==
    IF (\A i \in 3..Len(v) : v[i] = 0) /\ (Len(v) < 2 \/ v[2] < 32768)
    THEN (IF Len(v) >= 2 THEN v[2] * W16 ELSE 0) + v[1]
    ELSE Huge

\* a < b on limbs of equal width
Lt(a, b) == \E i \in 1..Len(a) : a[i] < b[i] /\ \A j \in (i + 1)..Len(a) : a[j] = b[j]
Le(a, b) == ~Lt(b, a)

RECURSIVE AddCarry(_, _, _)
AddCarry(a, b, c) ==
    IF a = <<>> THEN <<c>>
    ELSE LET s == Head(a) + Head(b) + c
         IN  <<s % W16>> \o AddCarry(Tail(a), Tail(b), s \div W16)

RECURSIVE MulCarry(_, _, _)
MulCarry(a, k, c) ==
    IF a = <<>> THEN <<c>>
    ELSE LET s == Head(a) * k + c
         IN  <<s % W16>> \o MulCarry(Tail(a), k, s \div W16)

NoneOpt == [some |-> FALSE, val |-> <<>>]
SomeOpt(v) == [some |-> TRUE, val |-> v]

\* uN::checked_add: None on overflow of the operands' width
checked_add(a, b) ==
    LET r == AddCarry(a, b, 0)
    IN  IF r[Len(r)] # 0 THEN NoneOpt ELSE SomeOpt(SubSeq(r, 1, Len(a)))

\* usize::checked_mul by a small constant
checked_mul(a, k) ==
    LET r == MulCarry(a, k, 0)
    IN  IF r[Len(r)] # 0 THEN NoneOpt ELSE SomeOpt(SubSeq(r, 1, Len(a)))

\* the unchecked `a + b` of the accessors: on overflow a build with overflow
\* checks panics and a build without them wraps
UncheckedAdd(a, b, overflowChecks) ==
    LET r == AddCarry(a, b, 0)
    IN  [panic |-> r[Len(r)] # 0 /\ overflowChecks, val |-> SubSeq(r, 1, Len(a))]

-----------------------------------------------------------------------------
\* Slices of a byte sequence. A view records where it lies in its parent.

PanicView == [panic |-> TRUE, lo |-> 0, hi |-> 0, bytes |-> <<>>]

\* `&s[a..b]` with usize a, b: panics unless a <= b <= s.len()
Index(s, a, b) ==
    IF Lt(b, a) \/ Lt(Lit(Len(s), USIZE), b) THEN PanicView
    ELSE [panic |-> FALSE, lo |-> Val(a), hi |-> Val(b),
          bytes |-> SubSeq(s, Val(a) + 1, Val(b))]

\* `s.get(a..b)` with usize a, b: None unless a <= b <= s.len()
Get(s, a, b) ==
    IF Lt(b, a) \/ Lt(Lit(Len(s), USIZE), b) THEN NoneOpt
    ELSE SomeOpt(SubSeq(s, Val(a) + 1, Val(b)))

\* `s.get(a..)`
GetFrom(s, a) == Get(s, a, Lit(Len(s), USIZE))

\* `s.chunks_exact(n)`
chunks_exact(s, n) == [i \in 1..(Len(s) \div n) |-> SubSeq(s, n * (i - 1) + 1, n * i)]

-----------------------------------------------------------------------------
\* Results

Error(kind) == [kind |-> kind, payload |-> <<>>]
NoError == Error("")
Ok(v) == [ok |-> TRUE, err |-> NoError, val |-> v]
Err(kind) == [ok |-> FALSE, err |-> Error(kind), val |-> <<>>]

-----------------------------------------------------------------------------
\* Header

KTX2_MAGIC == <<171, 75, 84, 88, 32, 50, 48, 187, 13, 10, 26, 10>>

HeaderLENGTH == 80
LevelIndexLENGTH == 24

\* the codes the symbol tables know (enums.rs is not part of the sources)
KnownFormats == {<<37, 0>>, <<43, 0>>}
KnownSchemes == {<<1, 0>>, <<2, 0>>}

\* Format::new: a known nonzero code is Some, anything else None
Format_new(code) == IF code \in KnownFormats THEN SomeOpt(code) ELSE NoneOpt

\* SupercompressionScheme::new
SupercompressionScheme_new(code) == IF code \in KnownSchemes THEN SomeOpt(code) ELSE NoneOpt

\* data[a..b] of the code, a and b counted from 0
Range(data, a, b) == SubSeq(data, a + 1, b)

\* the struct literal of Header::from_bytes
HeaderFields(data) ==
    [format |-> Format_new(from_le_bytes(Range(data, 12, 16))),
     type_size |-> from_le_bytes(Range(data, 16, 20)),
     pixel_width |-> from_le_bytes(Range(data, 20, 24)),
     pixel_height |-> from_le_bytes(Range(data, 24, 28)),
     pixel_depth |-> from_le_bytes(Range(data, 28, 32)),
     layer_count |-> from_le_bytes(Range(data, 32, 36)),
     face_count |-> from_le_bytes(Range(data, 36, 40)),
     level_count |-> from_le_bytes(Range(data, 40, 44)),
     supercompression_scheme |-> SupercompressionScheme_new(from_le_bytes(Range(data, 44, 48))),
     index |-> [dfd_byte_offset |-> from_le_bytes(Range(data, 48, 52)),
                dfd_byte_length |-> from_le_bytes(Range(data, 52, 56)),
                kvd_byte_offset |-> from_le_bytes(Range(data, 56, 60)),
                kvd_byte_length |-> from_le_bytes(Range(data, 60, 64)),
                sgd_byte_offset |-> from_le_bytes(Range(data, 64, 72)),
                sgd_byte_length |-> from_le_bytes(Range(data, 72, 80))]]

Zero32 == Lit(0, U32)

\* HeaderFieldChecks with the two checks in the other order
HeaderFieldChecksFacesFirst(header) ==
    IF header.face_count = Zero32 THEN Err("ZeroFaceCount")
    ELSE IF header.pixel_width = Zero32 THEN Err("ZeroWidth")
    ELSE Ok(header)

\* the two field checks that end Header::from_bytes
HeaderFieldChecks(header) ==
    IF header.pixel_width = Zero32 THEN Err("ZeroWidth")
    ELSE IF header.face_count = Zero32 THEN Err("ZeroFaceCount")
    ELSE Ok(header)

\* Header::from_bytes
Header_from_bytes(data) ==
    IF Range(data, 0, Len(KTX2_MAGIC)) # KTX2_MAGIC THEN Err("BadMagic")
    ELSE HeaderFieldChecks(HeaderFields(data))

\* LevelIndex::from_bytes reading the uncompressed length from bytes 8..16
LevelIndex_from_bytesWrongRange(data) ==
    [byte_offset |-> from_le_bytes(Range(data, 0, 8)),
     byte_length |-> from_le_bytes(Range(data, 8, 16)),
     uncompressed_byte_length |-> from_le_bytes(Range(data, 8, 16))]

\* LevelIndex::from_bytes
LevelIndex_from_bytes(data) ==
    [byte_offset |-> from_le_bytes(Range(data, 0, 8)),
     byte_length |-> from_le_bytes(Range(data, 8, 16)),
     uncompressed_byte_length |-> from_le_bytes(Range(data, 16, 24))]

-----------------------------------------------------------------------------
\* Reader

Max(a, b) == IF Lt(a, b) THEN b ELSE a

\* Reader::level_index: the entries of the level-index table, or UnexpectedEnd
level_index(self) ==
    LET level_count == Widen(Max(self.header.level_count, Lit(1, U32)), USIZE)
        table_len == checked_mul(level_count, LevelIndexLENGTH)
    IN  IF ~table_len.some THEN Err("UnexpectedEnd")
        ELSE LET level_index_end_byte == checked_add(Lit(HeaderLENGTH, USIZE), table_len.val)
             IN  IF ~level_index_end_byte.some THEN Err("UnexpectedEnd")
                 ELSE LET level_index_bytes ==
                              Get(self.input, Lit(HeaderLENGTH, USIZE), level_index_end_byte.val)
                      IN  IF ~level_index_bytes.some THEN Err("UnexpectedEnd")
                          ELSE LET chunks == chunks_exact(level_index_bytes.val, LevelIndexLENGTH)
                               IN  Ok([i \in 1..Len(chunks) |-> LevelIndex_from_bytes(chunks[i])])

\* the DFD check without the comparison of dfd_end with dfd_start
DfdBoundsOkNoStart(index, len) ==
    LET dfd_end == checked_add(index.dfd_byte_offset, index.dfd_byte_length)
    IN  /\ dfd_end.some
        /\ ~Le(Lit(len, USIZE), Widen(dfd_end.val, USIZE))

\* "Check DFD bounds" of Reader::new: TRUE when the check lets the input pass
DfdBoundsOk(index, len) ==
    LET dfd_start == checked_add(index.dfd_byte_offset, Lit(4, U32))
        dfd_end == checked_add(index.dfd_byte_offset, index.dfd_byte_length)
    IN  /\ dfd_start.some
        /\ dfd_end.some
        /\ ~(Lt(dfd_end.val, dfd_start.val) \/ Le(Lit(len, USIZE), Widen(dfd_end.val, USIZE)))

\* the SGD check with > in place of >=
SgdBoundsOkInclusive(index, len) ==
    LET sgd_end == checked_add(index.sgd_byte_offset, index.sgd_byte_length)
    IN  /\ sgd_end.some
        /\ ~Lt(Widen(Lit(len, USIZE), U64), sgd_end.val)

\* "Check SGD bounds" of Reader::new
SgdBoundsOk(index, len) ==
    LET sgd_end == checked_add(index.sgd_byte_offset, index.sgd_byte_length)
    IN  /\ sgd_end.some
        /\ ~Le(Widen(Lit(len, USIZE), U64), sgd_end.val)

\* the KVD check with > in place of >=
KvdBoundsOkInclusive(index, len) ==
    LET kvd_end == checked_add(index.kvd_byte_offset, index.kvd_byte_length)
    IN  /\ kvd_end.some
        /\ ~Lt(Lit(len, USIZE), Widen(kvd_end.val, USIZE))

\* "Check KVD bounds" of Reader::new
KvdBoundsOk(index, len) ==
    LET kvd_end == checked_add(index.kvd_byte_offset, index.kvd_byte_length)
    IN  /\ kvd_end.some
        /\ ~Le(Lit(len, USIZE), Widen(kvd_end.val, USIZE))

\* the level check looking at byte_offset only
LevelBoundsOkOffsetOnly(level, len) ==
    ~Lt(Widen(Lit(len, USIZE), U64), level.byte_offset)

\* the body of the "Check level data bounds" loop, for one level
LevelBoundsOk(level, len) ==
    LET level_end == checked_add(level.byte_offset, level.byte_length)
    IN  /\ level_end.some
        /\ ~Lt(Widen(Lit(len, USIZE), U64), level_end.val)

\* Reader::new
Reader_new(in) ==
    IF Len(in) < HeaderLENGTH THEN Err("UnexpectedEnd")
    ELSE LET parsed == Header_from_bytes(Range(in, 0, HeaderLENGTH))
         IN  IF ~parsed.ok THEN parsed
             ELSE LET header == parsed.val
                      result == [input |-> in, header |-> header]
                      index == level_index(result)
                  IN  IF ~DfdBoundsOk(header.index, Len(in)) THEN Err("UnexpectedEnd")
                      ELSE IF ~SgdBoundsOk(header.index, Len(in)) THEN Err("UnexpectedEnd")
                      ELSE IF ~KvdBoundsOk(header.index, Len(in)) THEN Err("UnexpectedEnd")
                      ELSE IF ~index.ok THEN index
                      ELSE IF \E i \in 1..Len(index.val) : ~LevelBoundsOk(index.val[i], Len(in))
                           THEN Err("UnexpectedEnd")
                      ELSE Ok(result)

\* what an accessor hands out: a panic, one view, or a sequence of levels
NoOut == [op |-> "none", panic |-> FALSE, view |-> PanicView, levels |-> <<>>]

\* one item of Reader::levels
Level(self, level, overflowChecks) ==
    LET end == UncheckedAdd(level.byte_offset, level.byte_length, overflowChecks)
        data == IF end.panic THEN PanicView ELSE Index(self.input, level.byte_offset, end.val)
    IN  [data |-> data, uncompressed_byte_length |-> level.uncompressed_byte_length]

\* Reader::levels, collected
levels(self, overflowChecks) ==
    LET index == level_index(self)
        items == [i \in 1..Len(index.val) |-> Level(self, index.val[i], overflowChecks)]
    IN  IF ~index.ok THEN [NoOut EXCEPT !.op = "levels", !.panic = TRUE]
        ELSE [NoOut EXCEPT !.op = "levels", !.levels = items,
                           !.panic = \E i \in 1..Len(items) : items[i].data.panic]

\* Reader::supercompression_global_data
supercompression_global_data(self, overflowChecks) ==
    LET index == self.header.index
        start == index.sgd_byte_offset
        end == UncheckedAdd(index.sgd_byte_offset, index.sgd_byte_length, overflowChecks)
        view == IF end.panic THEN PanicView ELSE Index(self.input, start, end.val)
    IN  [NoOut EXCEPT !.op = "sgd", !.view = view, !.panic = view.panic]

\* Reader::data_format_descriptors: the data of the iterator it returns
data_format_descriptors(self, overflowChecks) ==
    LET index == self.header.index
        start == Widen(index.dfd_byte_offset, USIZE)
        end == UncheckedAdd(index.dfd_byte_offset, index.dfd_byte_length, overflowChecks)
        skipped == UncheckedAdd(start, Lit(4, USIZE), overflowChecks)
        view == IF end.panic \/ skipped.panic THEN PanicView
                ELSE Index(self.input, skipped.val, Widen(end.val, USIZE))
    IN  [NoOut EXCEPT !.op = "dfd", !.view = view, !.panic = view.panic]

\* Reader::key_value_data: the data of the iterator it returns
key_value_data(self, overflowChecks) ==
    LET index == self.header.index
        start == Widen(index.kvd_byte_offset, USIZE)
        end == UncheckedAdd(index.kvd_byte_offset, index.kvd_byte_length, overflowChecks)
        view == IF end.panic THEN PanicView ELSE Index(self.input, start, Widen(end.val, USIZE))
    IN  [NoOut EXCEPT !.op = "kvd", !.view = view, !.panic = view.panic]

-----------------------------------------------------------------------------
\* The input buffers of the Reader specification

Max32 == <<65535, 65535>>
Max64 == <<65535, 65535, 65535, 65535>>

BadMagic == [KTX2_MAGIC EXCEPT ![12] = 11]

\* offset/length pairs of a section, placed relative to the buffer length L:
\* absent, ending one byte before the end, ending at the end, past the end,
\* and overflowing the field's width; for the format description also
\* lengths of 3 and 4 bytes inside the buffer
DfdChoices(L) ==
    {<<Lit(0, U32), Lit(0, U32)>>, <<Lit(L - 9, U32), Lit(8, U32)>>,
     <<Lit(L - 8, U32), Lit(8, U32)>>, <<Lit(L - 5, U32), Lit(4, U32)>>,
     <<Lit(L - 9, U32), Lit(3, U32)>>,
     <<Max32, Lit(1, U32)>>, <<<<65532, 65535>>, Lit(3, U32)>>}

KvdChoices(L) ==
    {<<Lit(0, U32), Lit(0, U32)>>, <<Lit(L - 9, U32), Lit(8, U32)>>,
     <<Lit(L - 8, U32), Lit(8, U32)>>, <<Max32, Lit(1, U32)>>}

SgdChoices(L) ==
    {<<Lit(0, U64), Lit(0, U64)>>, <<Lit(L - 9, U64), Lit(8, U64)>>,
     <<Lit(L - 8, U64), Lit(8, U64)>>, <<Lit(L - 7, U64), Lit(8, U64)>>,
     <<Max64, Lit(1, U64)>>}

\* the i-th level-index entry: ending at the end of the buffer, one byte past
\* it, or overflowing 64 bits
LevelChoices(L, i) ==
    {<<Lit(L - 8 - i, U64), Lit(8 + i, U64), Lit(100 + i, U64)>>,
     <<Lit(L - 8 - i, U64), Lit(9 + i, U64), Lit(200 + i, U64)>>,
     <<Max64, Lit(1, U64), Lit(300 + i, U64)>>}

RECURSIVE LevelTables(_, _)
LevelTables(L, n) ==
    IF n = 0 THEN {<<>>}
    ELSE {Append(t, e) : t \in LevelTables(L, n - 1), e \in LevelChoices(L, n)}

RECURSIVE Flatten(_)
Flatten(ss) == IF ss = <<>> THEN <<>> ELSE Head(ss) \o Flatten(Tail(ss))

LevelCountChoices == {Lit(n, U32) : n \in 0..MaxLevels} \cup {<<0, 65535>>}

\* the number of table entries written for a level count
Entries(level_count) == IF Val(level_count) = 0 \/ Val(level_count) > MaxLevels THEN 1 ELSE Val(level_count)

Lens == {HeaderLENGTH - 1} \cup {HeaderLENGTH + LevelIndexLENGTH * k : k \in 0..MaxLevels}
            \cup {HeaderLENGTH + LevelIndexLENGTH * MaxLevels + TailLen}

\* a buffer of L bytes: header, level-index table, then bytes that differ by position
MkInput(L, magic, width, faces, level_count, dfd, kvd, sgd, table) ==
    LET pre == magic \o to_le_bytes(Lit(37, U32)) \o to_le_bytes(Lit(1, U32))
                 \o to_le_bytes(width) \o to_le_bytes(Lit(1, U32)) \o to_le_bytes(Lit(0, U32))
                 \o to_le_bytes(Lit(0, U32)) \o to_le_bytes(faces) \o to_le_bytes(level_count)
                 \o to_le_bytes(Lit(0, U32))
                 \o to_le_bytes(dfd[1]) \o to_le_bytes(dfd[2])
                 \o to_le_bytes(kvd[1]) \o to_le_bytes(kvd[2])
                 \o to_le_bytes(sgd[1]) \o to_le_bytes(sgd[2])
                 \o Flatten([i \in 1..Len(table) |->
                        to_le_bytes(table[i][1]) \o to_le_bytes(table[i][2]) \o to_le_bytes(table[i][3])])
    IN  IF L <= Len(pre) THEN SubSeq(pre, 1, L)
        ELSE pre \o SubSeq([i \in 1..L |-> (7 * i) % 256], Len(pre) + 1, L)

-----------------------------------------------------------------------------
\* The Reader specification: construct a Reader from a buffer, then call its
\* accessors in any order.

NotConstructed == [called |-> FALSE, ok |-> FALSE, err |-> NoError, val |-> <<>>]

KvIdle == kvSection = <<>> /\ kvPieces = <<>> /\ kvData = <<>> /\ kvLog = <<>>
DfdIdle == dfdSection = <<>> /\ dfdData = <<>> /\ dfdLog = <<>>
SiIdle == siTrace = <<>>
CodecIdle == codecTrace = <<>>
SamplesIdle == samplesSection = <<>> /\ samplesData = <<>> /\ samplesLog = <<>>
ReaderIdle == input = <<>> /\ reader = NotConstructed /\ out = NoOut /\ levelsLog = <<>>

Init ==
    /\ \E L \in Lens, magic \in {KTX2_MAGIC, BadMagic},
          width \in {Lit(0, U32), <<0, 1>>}, faces \in {Lit(0, U32), Lit(6, U32)},
          level_count \in LevelCountChoices :
          \E dfd \in DfdChoices(L), kvd \in KvdChoices(L), sgd \in SgdChoices(L),
             table \in LevelTables(L, Entries(level_count)) :
             input = MkInput(L, magic, width, faces, level_count, dfd, kvd, sgd, table)
    /\ reader = NotConstructed
    /\ out = NoOut
    /\ levelsLog = <<>>
    /\ KvIdle /\ DfdIdle /\ SiIdle /\ CodecIdle /\ SamplesIdle

New ==
    /\ ~reader.called
    /\ reader' = [called |-> TRUE] @@ Reader_new(input)
    /\ UNCHANGED <<input, out, levelsLog, kvVars, dfdVars, siVars, codecVars, samplesVars>>

Levels ==
    /\ reader.called /\ reader.ok
    /\ Len(levelsLog) < MaxLevelsCalls
    /\ \E overflowChecks \in BOOLEAN :
          /\ out' = levels(reader.val, overflowChecks)
          /\ levelsLog' = Append(levelsLog, out')
    /\ UNCHANGED <<input, reader, kvVars, dfdVars, siVars, codecVars, samplesVars>>

SupercompressionGlobalData ==
    /\ reader.called /\ reader.ok
    /\ \E overflowChecks \in BOOLEAN : out' = supercompression_global_data(reader.val, overflowChecks)
    /\ UNCHANGED <<input, reader, levelsLog, kvVars, dfdVars, siVars, codecVars, samplesVars>>

DataFormatDescriptors ==
    /\ reader.called /\ reader.ok
    /\ \E overflowChecks \in BOOLEAN : out' = data_format_descriptors(reader.val, overflowChecks)
    /\ UNCHANGED <<input, reader, levelsLog, kvVars, dfdVars, siVars, codecVars, samplesVars>>

KeyValueData ==
    /\ reader.called /\ reader.ok
    /\ \E overflowChecks \in BOOLEAN : out' = key_value_data(reader.val, overflowChecks)
    /\ UNCHANGED <<input, reader, levelsLog, kvVars, dfdVars, siVars, codecVars, samplesVars>>

Next == New \/ Levels \/ SupercompressionGlobalData \/ DataFormatDescriptors \/ KeyValueData

Spec == Init /\ [][Next]_vars

-----------------------------------------------------------------------------
\* The claims about Reader speak of the numbers written in the buffer. They
\* are read off the buffer here digit by digit (base 256, least significant
\* first), with sums that are never truncated.

\* the n bytes of the field at byte offset off (counted from 0)
Field(buf, off, n) == SubSeq(buf, off + 1, off + n)

\* the digits of a + b, one digit longer than a and b
RECURSIVE DigitSum(_, _, _)
DigitSum(a, b, c) ==
    IF a = <<>> THEN <<c>>
    ELSE <<(Head(a) + Head(b) + c) % 256>> \o DigitSum(Tail(a), Tail(b), (Head(a) + Head(b) + c) \div 256)

\* digits denoting a number below 2^24, and that number
Small(d) == \A i \in 4..Len(d) : d[i] = 0
Num(d) == d[1] + 256 * d[2] + 65536 * d[3]

NumLess(d, n) == Small(d) /\ Num(d) < n
NumAtMost(d, n) == Small(d) /\ Num(d) <= n
NumEquals(d, n) == Small(d) /\ Num(d) = n

HasHeader == Len(input) >= 80
MagicOk == Field(input, 0, 12) = KTX2_MAGIC
WidthZero == Field(input, 20, 4) = <<0, 0, 0, 0>>
FacesZero == Field(input, 36, 4) = <<0, 0, 0, 0>>
ValidHeader == HasHeader /\ MagicOk /\ ~WidthZero /\ ~FacesZero

DfdOffset == Field(input, 48, 4)
DfdEnd == DigitSum(Field(input, 48, 4), Field(input, 52, 4), 0)
KvdOffset == Field(input, 56, 4)
KvdEnd == DigitSum(Field(input, 56, 4), Field(input, 60, 4), 0)
SgdOffset == Field(input, 64, 8)
SgdEnd == DigitSum(Field(input, 64, 8), Field(input, 72, 8), 0)

\* max(level_count, 1) when that is a small number, 0 when it is too large
\* for any table to fit
LevelCount ==
    IF ~Small(Field(input, 40, 4)) THEN 0
    ELSE IF Num(Field(input, 40, 4)) = 0 THEN 1 ELSE Num(Field(input, 40, 4))
TableFits == LevelCount > 0 /\ 80 + 24 * LevelCount <= Len(input)

LevelOffset(i) == Field(input, 80 + 24 * (i - 1), 8)
LevelEnd(i) == DigitSum(Field(input, 80 + 24 * (i - 1), 8), Field(input, 88 + 24 * (i - 1), 8), 0)
LevelUncompressed(i) == Field(input, 96 + 24 * (i - 1), 8)

Constructed == reader.called /\ reader.ok
Failed(kind) == reader.called /\ ~reader.ok /\ reader.err.kind = kind

\* a view that is the range [lo, hi) of the buffer, given as digits
IsRange(view, lo, hi) ==
    /\ ~view.panic
    /\ Small(lo) /\ Small(hi)
    /\ view.lo = Num(lo) /\ view.hi = Num(hi)
    /\ view.lo <= view.hi /\ view.hi <= Len(input)
    /\ view.bytes = SubSeq(input, view.lo + 1, view.hi)

\* C1: on a constructed Reader no accessor panics, and every slice handed out
\* is the section's range of the buffer, start <= end <= buffer length:
\* [sgd_offset, sgd_end), [dfd_offset + 4, dfd_end), [kvd_offset, kvd_end) and
\* [byte_offset, byte_offset + byte_length) of every level.
AccessorsInBounds ==
    Constructed =>
        /\ ~out.panic
        /\ out.op = "sgd" => IsRange(out.view, SgdOffset, SgdEnd)
        /\ out.op = "dfd" => IsRange(out.view, DigitSum(DfdOffset, <<4, 0, 0, 0>>, 0), DfdEnd)
        /\ out.op = "kvd" => IsRange(out.view, KvdOffset, KvdEnd)
        /\ out.op = "levels" =>
              \A i \in 1..Len(out.levels) : IsRange(out.levels[i].data, LevelOffset(i), LevelEnd(i))

\* a Reader whose last level ends exactly at the end of the buffer has handed out its levels
AccessorsInBoundsWitness ==
    /\ Constructed /\ out.op = "levels" /\ Len(out.levels) = MaxLevels
    /\ out.levels[1].data.hi = Len(input)
    /\ out.levels[1].data.lo < out.levels[1].data.hi

\* C2: with a valid header, Reader::new fails with UnexpectedEnd whenever the
\* DFD or KVD end is not below the buffer length, the SGD end overflows or
\* exceeds the buffer length, the level-index table does not fit, or a level's
\* end overflows or exceeds the buffer length.
SectionOutOfBounds ==
    \/ ~NumLess(DfdEnd, Len(input))
    \/ ~NumLess(KvdEnd, Len(input))
    \/ ~NumAtMost(SgdEnd, Len(input))
    \/ ~TableFits
    \/ \E i \in 1..LevelCount : ~NumAtMost(LevelEnd(i), Len(input))

OutOfBoundsRejected ==
    reader.called /\ ValidHeader /\ SectionOutOfBounds => Failed("UnexpectedEnd")

\* only the key/value section is out of bounds (it ends exactly at the buffer end)
OutOfBoundsRejectedWitness ==
    /\ reader.called /\ ValidHeader
    /\ NumLess(DfdEnd, Len(input)) /\ NumLess(SgdEnd, Len(input)) /\ TableFits
    /\ \A i \in 1..LevelCount : NumAtMost(LevelEnd(i), Len(input))
    /\ NumEquals(KvdEnd, Len(input))
    /\ Failed("UnexpectedEnd")

\* every construction check other than the SGD one lets the buffer pass
OtherChecksPass ==
    /\ ValidHeader
    /\ NumLess(DfdEnd, Len(input)) /\ NumAtMost(DigitSum(DfdOffset, <<4, 0, 0, 0>>, 0), Num(DfdEnd))
    /\ NumLess(KvdEnd, Len(input))
    /\ TableFits
    /\ \A i \in 1..LevelCount : NumAtMost(LevelEnd(i), Len(input))

\* C3 as stated: a buffer that passes all other checks and whose SGD section
\* ends exactly at the end of the buffer is accepted.
SgdMayEndAtBufferEnd ==
    reader.called /\ OtherChecksPass /\ NumEquals(SgdEnd, Len(input)) => reader.ok

\* C3 as amended: with a valid header, a supercompression-global section that
\* ends exactly at the end of the buffer is rejected with UnexpectedEnd, as the
\* format-description and key/value sections are; a constructed Reader has its
\* SGD end strictly below the buffer length.
SgdAtBufferEndRejected ==
    /\ reader.called /\ ValidHeader /\ NumEquals(SgdEnd, Len(input)) => Failed("UnexpectedEnd")
    /\ reader.called /\ ValidHeader /\ NumEquals(DfdEnd, Len(input)) => Failed("UnexpectedEnd")
    /\ reader.called /\ ValidHeader /\ NumEquals(KvdEnd, Len(input)) => Failed("UnexpectedEnd")
    /\ Constructed => NumLess(SgdEnd, Len(input))

\* only the SGD check stands in the way, and the buffer is rejected
SgdAtBufferEndRejectedWitness ==
    /\ reader.called /\ OtherChecksPass /\ NumEquals(SgdEnd, Len(input))
    /\ Failed("UnexpectedEnd")

\* the output of one levels() call is what the level-index table says
MatchesTable(o) ==
    /\ ~o.panic
    /\ Len(o.levels) = LevelCount
    /\ \A i \in 1..Len(o.levels) :
          /\ IsRange(o.levels[i].data, LevelOffset(i), LevelEnd(i))
          /\ to_le_bytes(o.levels[i].uncompressed_byte_length) = LevelUncompressed(i)

\* C4: levels() yields max(level_count, 1) items, the i-th being the buffer
\* range and the uncompressed length of the i-th table entry at 80 + 24 * i,
\* and every later call yields the same sequence from the same Reader.
LevelsMatchTable ==
    /\ \A k \in 1..Len(levelsLog) : MatchesTable(levelsLog[k]) /\ levelsLog[k] = levelsLog[1]
    /\ Constructed => reader.val.input = input

\* levels() was called twice on a Reader with several levels of different ranges
LevelsMatchTableWitness ==
    /\ Len(levelsLog) = MaxLevelsCalls
    /\ Len(levelsLog[1].levels) = MaxLevels
    /\ levelsLog[1].levels[1].data.lo # levelsLog[1].levels[MaxLevels].data.lo

\* C5: Reader::new reports the first failing check: a buffer shorter than 80
\* bytes fails with UnexpectedEnd; with a valid magic, zero width fails with
\* ZeroWidth whatever else is wrong; with nonzero width, zero face count fails
\* with ZeroFaceCount whatever section is out of bounds; a failure returns no
\* Reader.
FirstFailureReported ==
    reader.called =>
        /\ ~HasHeader => Failed("UnexpectedEnd")
        /\ HasHeader /\ MagicOk /\ WidthZero => Failed("ZeroWidth")
        /\ HasHeader /\ MagicOk /\ ~WidthZero /\ FacesZero => Failed("ZeroFaceCount")
        /\ ~reader.ok => reader.val = <<>>

\* width and face count are both zero and a section is out of bounds: ZeroWidth
FirstFailureReportedWitness ==
    /\ HasHeader /\ MagicOk /\ WidthZero /\ FacesZero /\ SectionOutOfBounds
    /\ Failed("ZeroWidth")

\* C6 as stated: a buffer of at least 80 bytes whose first 12 bytes are not
\* the magic fails with BadIdentifier carrying those 12 bytes.
BadIdentifierCarriesBytes ==
    reader.called /\ HasHeader /\ ~MagicOk =>
        /\ Failed("BadIdentifier")
        /\ reader.err.payload = Field(input, 0, 12)

DfdLength == Field(input, 52, 4)
KvdAbsent == Field(input, 56, 8) = [i \in 1..8 |-> 0]
SgdAbsent == Field(input, 64, 16) = [i \in 1..16 |-> 0]

\* the format-description, level-index and level checks let the buffer pass
DfdAndLevelsPass ==
    /\ ValidHeader
    /\ ~NumLess(DfdLength, 4)
    /\ NumLess(DfdEnd, Len(input))
    /\ TableFits
    /\ \A i \in 1..LevelCount : NumAtMost(LevelEnd(i), Len(input))

\* C15: with a header that parses, Reader::new fails with UnexpectedEnd
\* whenever dfd_byte_length is less than 4, a container with dfd_byte_offset 0
\* and dfd_byte_length 0 included; every constructed Reader has
\* dfd_byte_offset + 4 <= dfd_byte_offset + dfd_byte_length < buffer length;
\* a key/value or supercompression-global section of offset 0 and length 0
\* does not cause rejection when the other checks pass.
ShortDfdRejected ==
    /\ reader.called /\ ValidHeader /\ NumLess(DfdLength, 4) => Failed("UnexpectedEnd")
    /\ Constructed =>
          /\ NumLess(DfdEnd, Len(input))
          /\ NumAtMost(DigitSum(DfdOffset, <<4, 0, 0, 0>>, 0), Num(DfdEnd))
    /\ reader.called /\ DfdAndLevelsPass /\ KvdAbsent /\ NumLess(SgdEnd, Len(input)) => reader.ok
    /\ reader.called /\ DfdAndLevelsPass /\ SgdAbsent /\ NumLess(KvdEnd, Len(input)) => reader.ok

\* a buffer that declares no format-description, key/value or
\* supercompression-global section and passes every other check is rejected
ShortDfdRejectedWitness ==
    /\ reader.called /\ ValidHeader
    /\ Field(input, 48, 8) = [i \in 1..8 |-> 0]
    /\ KvdAbsent /\ SgdAbsent
    /\ TableFits /\ LevelCount = MaxLevels
    /\ \A i \in 1..LevelCount : NumAtMost(LevelEnd(i), Len(input))
    /\ Failed("UnexpectedEnd")

-----------------------------------------------------------------------------
\* Cursor helpers

\* the result of a cursor read: a panic, an UnexpectedEnd, or a value and the
\* advanced offset
ReadPanic(offset) == [ok |-> FALSE, panic |-> TRUE, val |-> <<>>, offset |-> offset]
ReadEnd(offset) == [ok |-> FALSE, panic |-> FALSE, val |-> <<>>, offset |-> offset]
ReadOk(v, offset) == [ok |-> TRUE, panic |-> FALSE, val |-> v, offset |-> offset]

\* read_bytes::<N>
read_bytes(bytes, offset, N, overflowChecks) ==
    LET end == UncheckedAdd(offset, Lit(N, USIZE), overflowChecks)
        v == Get(bytes, offset, end.val)
    IN  IF end.panic THEN ReadPanic(offset)
        ELSE IF ~v.some THEN ReadEnd(offset)
        ELSE ReadOk(v.val, end.val)

\* read_u16
read_u16(bytes, offset, overflowChecks) ==
    LET v == read_bytes(bytes, offset, 2, overflowChecks)
    IN  IF v.ok THEN ReadOk(from_le_bytes(v.val), v.offset) ELSE v

\* bytes_to_u32 reading its window with a panicking index instead of get
bytes_to_u32Indexing(bytes, offset, overflowChecks) ==
    LET end == UncheckedAdd(offset, Lit(4, USIZE), overflowChecks)
        v == Index(bytes, offset, end.val)
    IN  IF end.panic \/ v.panic THEN ReadPanic(offset)
        ELSE ReadOk(from_le_bytes(v.bytes), end.val)

\* bytes_to_u32
bytes_to_u32(bytes, offset, overflowChecks) ==
    LET end == UncheckedAdd(offset, Lit(4, USIZE), overflowChecks)
        v == Get(bytes, offset, end.val)
    IN  IF end.panic THEN ReadPanic(offset)
        ELSE IF ~v.some THEN ReadEnd(offset)
        ELSE ReadOk(from_le_bytes(v.val), end.val)

\* the bits of an unsigned integer, least significant first, and back
Pow2(n) == IF n = 0 THEN 1 ELSE 2 ^ n
ToBits(v) == [i \in 1..(16 * Len(v)) |-> (v[((i - 1) \div 16) + 1] \div Pow2((i - 1) % 16)) % 2]
RECURSIVE BitsValue(_)
BitsValue(b) == IF b = <<>> THEN 0 ELSE Head(b) + 2 * BitsValue(Tail(b))
FromBits(b) == [i \in 1..(Len(b) \div 16) |-> BitsValue(SubSeq(b, 16 * (i - 1) + 1, 16 * i))]

\* shift_and_mask_lower: (value >> shift) & ((1 << mask) - 1) on a u32
shift_and_mask_lower(shift, mask, value) ==
    LET bits == ToBits(value)
    IN  FromBits([i \in 1..32 |-> IF i <= mask /\ shift + i <= 32 THEN bits[shift + i] ELSE 0])

-----------------------------------------------------------------------------
\* std::str::from_utf8, as far as its verdict goes

InRange(b, lo, hi) == lo <= b /\ b <= hi
Cont(s, i) == i <= Len(s) /\ InRange(s[i], 128, 191)

RECURSIVE Utf8From(_, _)
Utf8From(s, i) ==
    IF i > Len(s) THEN TRUE
    ELSE LET b == s[i]
         IN  IF b <= 127 THEN Utf8From(s, i + 1)
             ELSE IF InRange(b, 194, 223) THEN Cont(s, i + 1) /\ Utf8From(s, i + 2)
             ELSE IF InRange(b, 224, 239)
                  THEN /\ Cont(s, i + 1) /\ Cont(s, i + 2)
                       /\ (b = 224 => s[i + 1] >= 160)
                       /\ (b = 237 => s[i + 1] <= 159)
                       /\ Utf8From(s, i + 3)
             ELSE IF InRange(b, 240, 244)
                  THEN /\ Cont(s, i + 1) /\ Cont(s, i + 2) /\ Cont(s, i + 3)
                       /\ (b = 240 => s[i + 1] >= 144)
                       /\ (b = 244 => s[i + 1] <= 143)
                       /\ Utf8From(s, i + 4)
             ELSE FALSE

from_utf8(s) == IF Utf8From(s, 1) THEN SomeOpt(s) ELSE NoneOpt

-----------------------------------------------------------------------------
\* KeyValueDataIterator

\* what next() returns, with the iterator's data afterwards and the number of
\* loop iterations it took
KvPanic(data, iters) ==
    [some |-> FALSE, panic |-> TRUE, key |-> <<>>, value |-> <<>>, data |-> data, iters |-> iters]
KvNone(data, iters) ==
    [some |-> FALSE, panic |-> FALSE, key |-> <<>>, value |-> <<>>, data |-> data, iters |-> iters]
KvSome(key, value, data, iters) ==
    [some |-> TRUE, panic |-> FALSE, key |-> key, value |-> value, data |-> data, iters |-> iters]

\* position of the last NUL instead of the first
position_nulLast(s) ==
    IF \A i \in 1..Len(s) : s[i] # 0 THEN NoneOpt
    ELSE SomeOpt((CHOOSE i \in 1..Len(s) : s[i] = 0 /\ \A j \in (i + 1)..Len(s) : s[j] # 0) - 1)

\* key_and_value.iter().position(|&c| c == b'\0'), counted from 0
position_nul(s) ==
    IF \A i \in 1..Len(s) : s[i] # 0 THEN NoneOpt
    ELSE SomeOpt((CHOOSE i \in 1..Len(s) : s[i] = 0 /\ \A j \in 1..(i - 1) : s[j] # 0) - 1)

\* "Ensure that we're 4-byte aligned"
Align4(offset, overflowChecks) ==
    IF offset[1] % 4 # 0
    THEN UncheckedAdd(offset, Lit(4 - (offset[1] % 4), USIZE), overflowChecks)
    ELSE [panic |-> FALSE, val |-> offset]

\* the remaining data left as it is when the padded end is out of bounds
RemainingAfterKeepsData(data, offset) ==
    IF GetFrom(data, offset).some THEN GetFrom(data, offset).val ELSE data

\* the match on self.data.get(offset..) that ends next(): the data after a
\* yielded record, empty when the padded end is out of bounds
RemainingAfter(data, offset) ==
    IF GetFrom(data, offset).some THEN GetFrom(data, offset).val ELSE <<>>

\* the loop of KeyValueDataIterator::next, from a cursor position
RECURSIVE KvLoop(_, _, _, _)
KvLoop(data, offset0, overflowChecks, iters) ==
    LET length == bytes_to_u32(data, offset0, overflowChecks)
        start_offset == length.offset
        sum == checked_add(start_offset, Widen(length.val, USIZE))
        end_offset == sum.val
        offset == Align4(end_offset, overflowChecks)
        key_and_value == Get(data, start_offset, end_offset)
        key_end_index == position_nul(key_and_value.val)
        key == from_utf8(SubSeq(key_and_value.val, 1, key_end_index.val))
        value == SubSeq(key_and_value.val, key_end_index.val + 2, Len(key_and_value.val))
    IN  IF length.panic THEN KvPanic(data, iters)
        ELSE IF ~length.ok THEN KvNone(data, iters)
        ELSE IF ~sum.some THEN KvNone(data, iters)
        ELSE IF offset.panic THEN KvPanic(data, iters)
        ELSE IF ~key_and_value.some THEN KvLoop(data, offset.val, overflowChecks, iters + 1)
        ELSE IF ~key_end_index.some THEN KvLoop(data, offset.val, overflowChecks, iters + 1)
        ELSE IF ~key.some THEN KvLoop(data, offset.val, overflowChecks, iters + 1)
        ELSE KvSome(key.val, value, RemainingAfter(data, offset.val), iters)

\* KeyValueDataIterator::next
KeyValueDataIterator_next(data, overflowChecks) == KvLoop(data, Lit(0, USIZE), overflowChecks, 1)

-----------------------------------------------------------------------------
\* The key/value specification: an iterator over a section put together from
\* well-formed records and malformed chunks, stepped until it has ended twice.

\* [u32 length][bytes][padding with zeros to a multiple of 4]
Record(payload) ==
    [wellFormed |-> TRUE, payload |-> payload,
     bytes |-> <<Len(payload), 0, 0, 0>> \o payload \o [i \in 1..((4 - (Len(payload) % 4)) % 4) |-> 0]]

Chunk(bytes) == [wellFormed |-> FALSE, payload |-> <<>>, bytes |-> bytes]

\* "k\0v", "ab\0", "\0x", "abcd" (no NUL), 0xC3 "\0" "1" (key not UTF-8),
\* "é\0" "1\0" "2" (two NULs), and the empty record
RecordChoices ==
    {Record(<<107, 0, 118>>), Record(<<97, 98, 0>>), Record(<<0, 120>>),
     Record(<<97, 98, 99, 100>>), Record(<<195, 0, 49>>),
     Record(<<195, 169, 0, 49, 0, 50>>), Record(<<>>)}

\* a truncated length field, a length of 2^32 - 1, a length of 8 before 2
\* bytes, and a valid record "z\0w" without its padding
ChunkChoices ==
    {Chunk(<<1, 0>>), Chunk(<<255, 255, 255, 255>>), Chunk(<<8, 0, 0, 0, 97, 0>>),
     Chunk(<<3, 0, 0, 0, 122, 0, 119>>)}

RECURSIVE PieceLists(_)
PieceLists(n) ==
    IF n = 0 THEN {<<>>}
    ELSE {<<>>} \cup {<<p>> \o l : p \in RecordChoices \cup ChunkChoices, l \in PieceLists(n - 1)}

InitKV ==
    /\ kvPieces \in PieceLists(MaxPieces)
    /\ kvSection = Flatten([i \in 1..Len(kvPieces) |-> kvPieces[i].bytes])
    /\ kvData = kvSection
    /\ kvLog = <<>>
    /\ ReaderIdle /\ DfdIdle /\ SiIdle /\ CodecIdle /\ SamplesIdle

KvNext ==
    /\ Len(kvLog) < MaxPieces + 2
    /\ \E overflowChecks \in BOOLEAN :
          LET r == KeyValueDataIterator_next(kvData, overflowChecks)
          IN  /\ kvLog' = Append(kvLog, r)
              /\ kvData' = r.data
    /\ UNCHANGED <<kvSection, kvPieces, readerVars, dfdVars, siVars, codecVars, samplesVars>>

NextKV == KvNext

SpecKV == InitKV /\ [][NextKV]_vars

\* the pairs the calls so far have yielded, in order
Pair(key, value) == [key |-> key, value |-> value]
RECURSIVE Yielded(_)
Yielded(log) ==
    IF log = <<>> THEN <<>>
    ELSE (IF Head(log).some THEN <<Pair(Head(log).key, Head(log).value)>> ELSE <<>>) \o Yielded(Tail(log))

IsPrefix(a, b) == Len(a) <= Len(b) /\ a = SubSeq(b, 1, Len(a))

\* the first NUL of a payload, counted from 1; 0 when there is none
FirstNul(payload) ==
    IF \E i \in 1..Len(payload) : payload[i] = 0
    THEN CHOOSE i \in 1..Len(payload) : payload[i] = 0 /\ \A j \in 1..(i - 1) : payload[j] # 0
    ELSE 0

Yields(payload) == FirstNul(payload) > 0 /\ Utf8From(SubSeq(payload, 1, FirstNul(payload) - 1), 1)

\* the pairs of the records that have a NUL and a UTF-8 key before it
RECURSIVE ExpectedPairs(_)
ExpectedPairs(pieces) ==
    IF pieces = <<>> THEN <<>>
    ELSE (IF Yields(Head(pieces).payload)
          THEN <<Pair(SubSeq(Head(pieces).payload, 1, FirstNul(Head(pieces).payload) - 1),
                      SubSeq(Head(pieces).payload, FirstNul(Head(pieces).payload) + 1,
                             Len(Head(pieces).payload)))>>
          ELSE <<>>) \o ExpectedPairs(Tail(pieces))

AllWellFormed == \A i \in 1..Len(kvPieces) : kvPieces[i].wellFormed
Ended(log) == log # <<>> /\ ~log[Len(log)].some

\* C7: over a section of in-bounds padded records the iterator yields, in
\* section order, exactly the records with a NUL and a UTF-8 key before the
\* first NUL, split at that NUL with the padding left out; records without a
\* NUL or with a non-UTF-8 key are skipped and the scan goes on.
YieldsWellFormedRecords ==
    AllWellFormed =>
        /\ IsPrefix(Yielded(kvLog), ExpectedPairs(kvPieces))
        /\ Ended(kvLog) => Yielded(kvLog) = ExpectedPairs(kvPieces)

\* a pair, a record without NUL, a record with a non-UTF-8 key or two NULs,
\* scanned to the end with both pairs yielded
YieldsWellFormedRecordsWitness ==
    /\ AllWellFormed /\ Len(kvPieces) = MaxPieces /\ Ended(kvLog)
    /\ Len(Yielded(kvLog)) = 2
    /\ ~Yields(kvPieces[2].payload)
    /\ Yields(kvPieces[1].payload) /\ Yields(kvPieces[MaxPieces].payload)

\* the pairs in front of the first length field that has fewer than 4 bytes
\* left or whose record runs past the end of the section
RECURSIVE PairsBeforeEnd(_, _)
PairsBeforeEnd(section, pos) ==
    IF pos + 4 > Len(section) THEN <<>>
    ELSE LET length == Field(section, pos, 4)
             payload == SubSeq(section, pos + 5, pos + 4 + Num(length))
             next == 4 * ((pos + 4 + Num(length) + 3) \div 4)
         IN  IF ~NumAtMost(length, Len(section) - pos - 4) THEN <<>>
             ELSE (IF Yields(payload)
                   THEN <<Pair(SubSeq(payload, 1, FirstNul(payload) - 1),
                               SubSeq(payload, FirstNul(payload) + 1, Len(payload)))>>
                   ELSE <<>>) \o PairsBeforeEnd(section, next)

\* C8: over any bytes, next() never panics and ends within one loop iteration
\* per length field; it yields the valid pairs that precede the first
\* truncated or overlong length field, returns None at that field, and
\* returns None on every later call.
EndsAtBadLength ==
    \A k \in 1..Len(kvLog) :
        /\ ~kvLog[k].panic
        /\ kvLog[k].iters <= (Len(kvSection) \div 4) + 1
        /\ kvLog[k].some <=> k <= Len(PairsBeforeEnd(kvSection, 0))
        /\ kvLog[k].some =>
              Pair(kvLog[k].key, kvLog[k].value) = PairsBeforeEnd(kvSection, 0)[k]

\* a pair was yielded, then the scan met a truncated or overlong length field
\* and returned None twice
EndsAtBadLengthWitness ==
    /\ Len(kvLog) >= 3 /\ kvLog[1].some
    /\ ~kvLog[Len(kvLog)].some /\ ~kvLog[Len(kvLog) - 1].some
    /\ Len(kvPieces) >= 2 /\ kvPieces[1].wellFormed /\ ~kvPieces[2].wellFormed
    /\ kvData # <<>>

\* the data next() was called on at the k-th call
KvBefore(k) == IF k = 1 THEN kvSection ELSE kvLog[k - 1].data

\* where the length field of the first record with a NUL and a UTF-8 key
\* starts in a section, scanning from pos; -1 when the scan ends before one
RECURSIVE FirstRecordAt(_, _)
FirstRecordAt(section, pos) ==
    IF pos + 4 > Len(section) THEN -1
    ELSE IF ~NumAtMost(Field(section, pos, 4), Len(section) - pos - 4) THEN -1
    ELSE IF Yields(SubSeq(section, pos + 5, pos + 4 + Num(Field(section, pos, 4)))) THEN pos
    ELSE FirstRecordAt(section, 4 * ((pos + 4 + Num(Field(section, pos, 4)) + 3) \div 4))

\* the end of the record whose length field starts at pos, and that end
\* rounded up to a multiple of 4
RecordEnd(section, pos) == pos + 4 + Num(Field(section, pos, 4))
PaddedEnd(section, pos) == 4 * ((RecordEnd(section, pos) + 3) \div 4)

\* C13: a call of next() that finds a valid record returns its pair; when the
\* record's end rounded up to a multiple of 4 lies beyond the end of the
\* remaining section, the remaining section becomes empty and the next call
\* returns None, so the pair is returned once; otherwise the remaining
\* section becomes the suffix that starts at the rounded-up end.
MissingPaddingEndsIteration ==
    \A k \in 1..Len(kvLog) :
        LET before == KvBefore(k)
            pos == FirstRecordAt(before, 0)
        IN  /\ kvLog[k].some <=> pos >= 0
            /\ kvLog[k].some =>
                  /\ <<Pair(kvLog[k].key, kvLog[k].value)>> =
                        ExpectedPairs(<<Record(SubSeq(before, pos + 5, RecordEnd(before, pos)))>>)
                  /\ IF PaddedEnd(before, pos) > Len(before)
                     THEN /\ kvLog[k].data = <<>>
                          /\ k < Len(kvLog) => ~kvLog[k + 1].some
                     ELSE kvLog[k].data = SubSeq(before, PaddedEnd(before, pos) + 1, Len(before))

\* after a pair, the record "z\0w" without its padding was yielded from the
\* last 7 bytes of the section, and the call after it returned None
MissingPaddingEndsIterationWitness ==
    /\ Len(kvLog) >= 3
    /\ kvLog[1].some /\ kvLog[2].some /\ ~kvLog[3].some
    /\ kvLog[1].data # <<>>
    /\ PaddedEnd(kvLog[1].data, FirstRecordAt(kvLog[1].data, 0)) > Len(kvLog[1].data)
    /\ kvLog[2].key = <<122>> /\ kvLog[2].value = <<119>>
    /\ kvLog[2].data = <<>>

-----------------------------------------------------------------------------
\* DataFormatDescriptorIterator

DataFormatDescriptorHeaderLENGTH == 8

\* DataFormatDescriptorHeader::parse after its three reads: the header and
\* the declared block size
ParsedHeader(v, version_number, descriptor_block_size) ==
    IF ~version_number.ok THEN version_number
    ELSE IF ~descriptor_block_size.ok THEN descriptor_block_size
    ELSE ReadOk([header |-> [vendor_id |-> shift_and_mask_lower(0, 17, v),
                             descriptor_type |-> shift_and_mask_lower(17, 15, v),
                             version_number |-> version_number.val],
                 size |-> Widen(descriptor_block_size.val, USIZE)],
                descriptor_block_size.offset)

\* DataFormatDescriptorHeader::parse after the read of the first word
ParseAfterWord(bytes, v, version_number, overflowChecks) ==
    ParsedHeader(v.val, version_number, read_u16(bytes, version_number.offset, overflowChecks))

\* DataFormatDescriptorHeader::parse
DataFormatDescriptorHeader_parse(bytes, v, overflowChecks) ==
    IF ~v.ok THEN v
    ELSE ParseAfterWord(bytes, v, read_u16(bytes, v.offset, overflowChecks), overflowChecks)

NoDfdHeader == [vendor_id |-> <<>>, descriptor_type |-> <<>>, version_number |-> <<>>]

\* what next() returns, with the data it was called on and the data it leaves
DfdNone(data) ==
    [some |-> FALSE, panic |-> FALSE, header |-> NoDfdHeader, payload |-> <<>>,
     before |-> data, data |-> data]
DfdPanicked(data) ==
    [some |-> FALSE, panic |-> TRUE, header |-> NoDfdHeader, payload |-> <<>>,
     before |-> data, data |-> data]

\* the two slices of the closure in next(), and the item it returns
DfdBlock(self_data, header, data, rest) ==
    IF data.panic \/ rest.panic THEN DfdPanicked(self_data)
    ELSE [some |-> TRUE, panic |-> FALSE, header |-> header,
          payload |-> data.bytes, before |-> self_data, data |-> rest.bytes]

\* the closure given to map_or in next()
DfdClosure(self_data, header, descriptor_block_size) ==
    IF descriptor_block_size = Lit(0, USIZE) \/ Lt(Lit(Len(self_data), USIZE), descriptor_block_size)
    THEN DfdNone(self_data)
    ELSE DfdBlock(self_data, header,
                  Index(self_data, Lit(DataFormatDescriptorHeaderLENGTH, USIZE), descriptor_block_size),
                  Index(self_data, descriptor_block_size, Lit(Len(self_data), USIZE)))

\* the map_or of next()
DfdMapOr(self_data, parsed) ==
    IF parsed.panic THEN DfdPanicked(self_data)
    ELSE IF ~parsed.ok THEN DfdNone(self_data)
    ELSE DfdClosure(self_data, parsed.val.header, parsed.val.size)

\* DataFormatDescriptorIterator::next
DataFormatDescriptorIterator_next(self_data, overflowChecks) ==
    IF Len(self_data) < DataFormatDescriptorHeaderLENGTH THEN DfdNone(self_data)
    ELSE DfdMapOr(self_data,
                  DataFormatDescriptorHeader_parse(
                      SubSeq(self_data, 1, DataFormatDescriptorHeaderLENGTH),
                      bytes_to_u32(SubSeq(self_data, 1, DataFormatDescriptorHeaderLENGTH),
                                   Lit(0, USIZE), overflowChecks),
                      overflowChecks))

\* blocks declaring sizes 8, 12 (with 4 payload bytes), 0, 4 and 264, and a
\* truncated sub-header
BlockChoices ==
    {<<0, 0, 0, 0, 2, 0, 8, 0>>, <<1, 0, 2, 0, 2, 0, 12, 0, 1, 2, 3, 4>>,
     <<0, 0, 0, 0, 2, 0, 0, 0>>, <<0, 0, 0, 0, 2, 0, 4, 0>>,
     <<0, 0, 0, 0, 2, 0, 8, 1>>, <<0, 0, 0, 0, 2>>}

RECURSIVE BlockLists(_)
BlockLists(n) ==
    IF n = 0 THEN {<<>>}
    ELSE {<<>>} \cup {<<b>> \o l : b \in BlockChoices, l \in BlockLists(n - 1)}

InitDFD ==
    /\ dfdSection \in {Flatten(blocks) : blocks \in BlockLists(MaxBlocks)}
    /\ dfdData = dfdSection
    /\ dfdLog = <<>>
    /\ ReaderIdle /\ KvIdle /\ SiIdle /\ CodecIdle /\ SamplesIdle

\* the iterator after a call of next() that returned r
DfdAfter(r) ==
    /\ dfdLog' = Append(dfdLog, r)
    /\ dfdData' = r.data

DfdNext ==
    /\ Len(dfdLog) < MaxBlocks + 2
    /\ \A k \in 1..Len(dfdLog) : ~dfdLog[k].panic
    /\ \E overflowChecks \in BOOLEAN :
          DfdAfter(DataFormatDescriptorIterator_next(dfdData, overflowChecks))
    /\ UNCHANGED <<dfdSection, readerVars, kvVars, siVars, codecVars, samplesVars>>

NextDFD == DfdNext

SpecDFD == InitDFD /\ [][NextDFD]_vars

\* the block size written in bytes 6..7 of the remaining data
DeclaredSize(data) == data[7] + 256 * data[8]

StopsHere(data) ==
    \/ Len(data) < 8
    \/ DeclaredSize(data) = 0
    \/ DeclaredSize(data) > Len(data)

\* C9 as stated: every step of the block iterator either returns None and
\* leaves the remaining bytes unchanged (fewer than 8 bytes remain, or the
\* declared size is 0 or exceeds them), or yields the payload [8, size) and
\* removes exactly size >= 8 bytes; no step panics, and None is final.
BlockStepsNeverPanic ==
    \A k \in 1..Len(dfdLog) :
        LET step == dfdLog[k]
        IN  /\ ~step.panic
            /\ IF StopsHere(step.before)
               THEN ~step.some /\ step.data = step.before
               ELSE /\ step.some
                    /\ DeclaredSize(step.before) >= 8
                    /\ step.payload = SubSeq(step.before, 9, DeclaredSize(step.before))
                    /\ step.data = SubSeq(step.before, DeclaredSize(step.before) + 1, Len(step.before))
            /\ \A j \in 1..(k - 1) : ~dfdLog[j].some => ~step.some

-----------------------------------------------------------------------------
\* SampleInformation

SampleInformationLENGTH == 16

\* the u8 operations of the codec
AsU8(v) == v[1] % 256
Bits8(n) == [i \in 1..8 |-> (n \div Pow2(i - 1)) % 2]
BitOr8(a, b) == BitsValue([i \in 1..8 |-> IF Bits8(a)[i] = 1 \/ Bits8(b)[i] = 1 THEN 1 ELSE 0])
BitAnd8(a, b) == BitsValue([i \in 1..8 |-> IF Bits8(a)[i] = 1 /\ Bits8(b)[i] = 1 THEN 1 ELSE 0])
Shl8(a, n) == (a * Pow2(n)) % 256

\* ChannelTypeQualifiers::all(): LINEAR | EXPONENT | SIGNED | FLOAT
ChannelTypeQualifiersAll == 15

\* ChannelTypeQualifiers::from_bits_truncate
ChannelTypeQualifiers_from_bits_truncate(bits) == BitAnd8(bits, ChannelTypeQualifiersAll)

\* the bit length taken as stored, without the + 1
SampleBitLengthAsStored(raw) == IF raw = 0 THEN NoneOpt ELSE SomeOpt(raw)

\* raw.checked_add(1).and_then(NonZeroU8::new) on the u8 raw
SampleBitLength(raw) ==
    IF raw + 1 > 255 THEN NoneOpt
    ELSE IF raw + 1 = 0 THEN NoneOpt
    ELSE SomeOpt(raw + 1)

NoSample == [bit_offset |-> <<>>, bit_length |-> 0, channel_type |-> 0,
             channel_type_qualifiers |-> 0, sample_positions |-> <<>>,
             lower |-> <<>>, upper |-> <<>>]

\* the items of siTrace
SiBytes(b) == [tag |-> "bytes", bytes |-> b, value |-> NoSample, err |-> ""]
SiValue(v) == [tag |-> "value", bytes |-> <<>>, value |-> v, err |-> ""]
SiError(kind) == [tag |-> "error", bytes |-> <<>>, value |-> NoSample, err |-> kind]

\* SampleInformation::as_bytes
SampleInformation_as_bytes(self) ==
    LET channel_info == BitOr8(self.channel_type, Shl8(self.channel_type_qualifiers, 4))
    IN  to_le_bytes(self.bit_offset) \o <<self.bit_length - 1, channel_info>>
          \o self.sample_positions \o to_le_bytes(self.lower) \o to_le_bytes(self.upper)

\* SampleInformation::from_bytes
SampleInformation_from_bytes(bytes, overflowChecks) ==
    LET v == bytes_to_u32(bytes, Lit(0, USIZE), overflowChecks)
        bit_offset == SubSeq(shift_and_mask_lower(0, 16, v.val), 1, 1)
        bit_length == SampleBitLength(AsU8(shift_and_mask_lower(16, 8, v.val)))
        channel_type == AsU8(shift_and_mask_lower(24, 4, v.val))
        channel_type_qualifiers ==
            ChannelTypeQualifiers_from_bits_truncate(AsU8(shift_and_mask_lower(28, 4, v.val)))
        sample_positions == read_bytes(bytes, v.offset, 4, overflowChecks)
        lower == bytes_to_u32(bytes, sample_positions.offset, overflowChecks)
        upper == bytes_to_u32(bytes, lower.offset, overflowChecks)
    IN  IF v.panic THEN SiError("panic")
        ELSE IF ~v.ok THEN SiError("UnexpectedEnd")
        ELSE IF ~bit_length.some THEN SiError("InvalidSampleBitLength")
        ELSE IF sample_positions.panic \/ lower.panic \/ upper.panic THEN SiError("panic")
        ELSE IF ~sample_positions.ok \/ ~lower.ok \/ ~upper.ok THEN SiError("UnexpectedEnd")
        ELSE SiValue([bit_offset |-> bit_offset, bit_length |-> bit_length.val,
                      channel_type |-> channel_type,
                      channel_type_qualifiers |-> channel_type_qualifiers,
                      sample_positions |-> sample_positions.val,
                      lower |-> lower.val, upper |-> upper.val])

\* 16-byte entries and SampleInformation values the codec is applied to
SiByteInputs ==
    {offset \o <<length, info>> \o positions \o lower \o upper :
        offset \in {<<0, 0>>, <<234, 0>>, <<255, 255>>},
        length \in {0, 1, 122, 254, 255},
        info \in {0, 18, 128, 255},
        positions \in {<<1, 2, 3, 4>>, <<0, 0, 0, 255>>},
        lower \in {<<210, 4, 0, 0>>, <<255, 255, 255, 255>>},
        upper \in {<<215, 17, 0, 0>>, <<0, 0, 0, 128>>}}

SiValueInputs ==
    [bit_offset : {<<0>>, <<234>>, <<65535>>},
     bit_length : {1, 123, 255},
     channel_type : {0, 2, 15, 16},
     channel_type_qualifiers : {0, 1, 10, 15},
     sample_positions : {<<1, 2, 3, 4>>, <<0, 0, 0, 255>>},
     lower : {<<1234, 0>>, Max32},
     upper : {<<4567, 0>>, <<0, 32768>>}]

InitSI ==
    /\ \/ \E b \in SiByteInputs : siTrace = <<SiBytes(b)>>
       \/ \E v \in SiValueInputs : siTrace = <<SiValue(v)>>
    /\ ReaderIdle /\ KvIdle /\ DfdIdle /\ CodecIdle /\ SamplesIdle

Last(t) == t[Len(t)]

SiFromBytes ==
    /\ Len(siTrace) < MaxCodecSteps
    /\ Last(siTrace).tag = "bytes"
    /\ \E overflowChecks \in BOOLEAN :
          siTrace' = Append(siTrace, SampleInformation_from_bytes(Last(siTrace).bytes, overflowChecks))
    /\ UNCHANGED <<readerVars, kvVars, dfdVars, codecVars, samplesVars>>

SiAsBytes ==
    /\ Len(siTrace) < MaxCodecSteps
    /\ Last(siTrace).tag = "value"
    /\ siTrace' = Append(siTrace, SiBytes(SampleInformation_as_bytes(Last(siTrace).value)))
    /\ UNCHANGED <<readerVars, kvVars, dfdVars, codecVars, samplesVars>>

NextSI == SiFromBytes \/ SiAsBytes

SpecSI == InitSI /\ [][NextSI]_vars

\* C10: from_bytes fails with InvalidSampleBitLength when byte 2 is 255;
\* otherwise it succeeds with bit_length = byte 2 + 1 and as_bytes gives the
\* entry back; and from_bytes(as_bytes(s)) = s when channel_type fits 4 bits.
SampleInformationRoundTrips ==
    \A k \in 1..(Len(siTrace) - 1) :
        /\ siTrace[k].tag = "bytes" /\ siTrace[k].bytes[3] = 255 =>
              siTrace[k + 1] = SiError("InvalidSampleBitLength")
        /\ siTrace[k].tag = "bytes" /\ siTrace[k].bytes[3] <= 254 =>
              /\ siTrace[k + 1].tag = "value"
              /\ siTrace[k + 1].value.bit_length = siTrace[k].bytes[3] + 1
              /\ k + 2 <= Len(siTrace) => siTrace[k + 2] = siTrace[k]
        /\ siTrace[k].tag = "value" /\ siTrace[k].value.channel_type < 16 /\ k + 2 <= Len(siTrace) =>
              siTrace[k + 2] = siTrace[k]

\* an entry with bit-length byte 254 and all qualifier bits set went through
\* from_bytes and as_bytes
SampleInformationRoundTripsWitness ==
    /\ Len(siTrace) = 3
    /\ siTrace[1].tag = "bytes" /\ siTrace[1].bytes[3] = 254 /\ siTrace[1].bytes[4] = 255
    /\ siTrace[3].tag = "bytes"

-----------------------------------------------------------------------------
\* Header::as_bytes and BasicDataFormatDescriptorHeader

BasicDataFormatDescriptorHeaderLENGTH == 16

\* Format::value and SupercompressionScheme::value: a symbol is kept as the
\* code the table gives it (enums.rs is not part of the sources)
Format_value(format) == format
SupercompressionScheme_value(scheme) == scheme

\* self.format.map(|format| format.value()).unwrap_or(0), for a u32
CodeOrZero32(option) == IF option.some THEN option.val ELSE Lit(0, U32)

\* Header::as_bytes
Header_as_bytes(self) ==
    KTX2_MAGIC
      \o to_le_bytes(CodeOrZero32([self.format EXCEPT !.val = Format_value(@)]))
      \o to_le_bytes(self.type_size)
      \o to_le_bytes(self.pixel_width)
      \o to_le_bytes(self.pixel_height)
      \o to_le_bytes(self.pixel_depth)
      \o to_le_bytes(self.layer_count)
      \o to_le_bytes(self.face_count)
      \o to_le_bytes(self.level_count)
      \o to_le_bytes(CodeOrZero32([self.supercompression_scheme
                                      EXCEPT !.val = SupercompressionScheme_value(@)]))
      \o to_le_bytes(self.index.dfd_byte_offset)
      \o to_le_bytes(self.index.dfd_byte_length)
      \o to_le_bytes(self.index.kvd_byte_offset)
      \o to_le_bytes(self.index.kvd_byte_length)
      \o to_le_bytes(self.index.sgd_byte_offset)
      \o to_le_bytes(self.index.sgd_byte_length)

\* the u8 codes the symbol tables know (enums.rs is not part of the sources)
KnownColorModels == {1, 2, 3}
KnownColorPrimaries == {1, 10}
KnownTransferFunctions == {1, 2}

\* ColorModel::new, ColorPrimaries::new, TransferFunction::new: a known
\* nonzero code is Some, anything else None
ColorModel_new(code) == IF code \in KnownColorModels THEN SomeOpt(code) ELSE NoneOpt
ColorPrimaries_new(code) == IF code \in KnownColorPrimaries THEN SomeOpt(code) ELSE NoneOpt
TransferFunction_new(code) == IF code \in KnownTransferFunctions THEN SomeOpt(code) ELSE NoneOpt

\* self.color_model.map(|c| c.value()).unwrap_or(0), for a u8
CodeOrZero8(option) == IF option.some THEN option.val ELSE 0

\* DataFormatFlags::all(): STRAIGHT_ALPHA | ALPHA_PREMULTIPLIED
DataFormatFlagsAll == 1

\* DataFormatFlags::from_bits_truncate
DataFormatFlags_from_bits_truncate(bits) == BitAnd8(bits, DataFormatFlagsAll)

\* NonZeroU8::new
NonZeroU8_new(n) == IF n = 0 THEN NoneOpt ELSE SomeOpt(n)

\* the u8 addition `a + b`: on overflow a build with overflow checks panics
\* and a build without them wraps
AddU8(a, b, overflowChecks) ==
    [panic |-> a + b > 255 /\ overflowChecks, val |-> (a + b) % 256]

\* the unwrap of NonZeroU8::new on a sum
UnwrapNonZero(sum) ==
    IF sum.panic \/ ~NonZeroU8_new(sum.val).some THEN [panic |-> TRUE, val |-> 0]
    ELSE [panic |-> FALSE, val |-> NonZeroU8_new(sum.val).val]

\* the dimension taken as stored, without the + 1
TexelBlockDimensionAsStored(dim, overflowChecks) == UnwrapNonZero(AddU8(dim, 0, overflowChecks))

\* |dim| NonZeroU8::new(dim + 1).unwrap()
TexelBlockDimension(dim, overflowChecks) == UnwrapNonZero(AddU8(dim, 1, overflowChecks))

\* BasicDataFormatDescriptorHeader::as_bytes
BasicDataFormatDescriptorHeader_as_bytes(self) ==
    <<CodeOrZero8(self.color_model), CodeOrZero8(self.color_primaries),
      CodeOrZero8(self.transfer_function), self.flags>>
      \o [i \in 1..4 |-> self.texel_block_dimensions[i] - 1]
      \o self.bytes_planes

\* the result of a codec: a panic, an error, or a value
CodecPanic == [ok |-> FALSE, panic |-> TRUE, err |-> NoError, val |-> <<>>]
CodecErr(kind) == [ok |-> FALSE, panic |-> FALSE, err |-> Error(kind), val |-> <<>>]
CodecOk(v) == [ok |-> TRUE, panic |-> FALSE, err |-> NoError, val |-> v]

\* the struct literal of BasicDataFormatDescriptorHeader::from_bytes
BasicHeaderFields(first, texel_block_dimensions, bytes_planes) ==
    [color_model |-> ColorModel_new(first[1]),
     color_primaries |-> ColorPrimaries_new(first[2]),
     transfer_function |-> TransferFunction_new(first[3]),
     flags |-> DataFormatFlags_from_bits_truncate(first[4]),
     texel_block_dimensions |-> texel_block_dimensions,
     bytes_planes |-> bytes_planes]

\* BasicDataFormatDescriptorHeader::from_bytes
BasicDataFormatDescriptorHeader_from_bytes(bytes, overflowChecks) ==
    LET first == read_bytes(bytes, Lit(0, USIZE), 4, overflowChecks)
        stored == read_bytes(bytes, first.offset, 4, overflowChecks)
        dims == [i \in 1..Len(stored.val) |-> TexelBlockDimension(stored.val[i], overflowChecks)]
        bytes_planes == read_bytes(bytes, stored.offset, 8, overflowChecks)
    IN  IF first.panic THEN CodecPanic
        ELSE IF ~first.ok THEN CodecErr("UnexpectedEnd")
        ELSE IF stored.panic THEN CodecPanic
        ELSE IF ~stored.ok THEN CodecErr("UnexpectedEnd")
        ELSE IF \E i \in 1..4 : dims[i].panic THEN CodecPanic
        ELSE IF bytes_planes.panic THEN CodecPanic
        ELSE IF ~bytes_planes.ok THEN CodecErr("UnexpectedEnd")
        ELSE CodecOk(BasicHeaderFields(first.val, [i \in 1..4 |-> dims[i].val], bytes_planes.val))

\* the end of BasicDataFormatDescriptor::parse: the header and the bytes after it
BasicDescriptor(bytes, header, sample_information) ==
    IF ~header.ok THEN header
    ELSE IF sample_information.panic THEN CodecPanic
    ELSE CodecOk([header |-> header.val, sample_information |-> sample_information.bytes])

\* BasicDataFormatDescriptor::parse
BasicDataFormatDescriptor_parse(bytes, overflowChecks) ==
    LET header_data == Get(bytes, Lit(0, USIZE), Lit(BasicDataFormatDescriptorHeaderLENGTH, USIZE))
    IN  IF ~header_data.some THEN CodecErr("UnexpectedEnd")
        ELSE BasicDescriptor(bytes,
                 BasicDataFormatDescriptorHeader_from_bytes(header_data.val, overflowChecks),
                 Index(bytes, Lit(BasicDataFormatDescriptorHeaderLENGTH, USIZE),
                       Lit(Len(bytes), USIZE)))

-----------------------------------------------------------------------------
\* The codec specification: a Header and a basic descriptor header (or a
\* block payload) are taken through as_bytes, from_bytes and parse.

\* the items of the two traces of codecTrace
CodecValue(tag, v) == [tag |-> tag, bytes |-> <<>>, value |-> v, err |-> ""]
CodecBytes(tag, b) == [tag |-> tag, bytes |-> b, value |-> <<>>, err |-> ""]
CodecFailure(tag, kind) == [tag |-> tag, bytes |-> <<>>, value |-> <<>>, err |-> kind]

\* what a codec returned, as an item
CodecItem(tag, r) ==
    IF r.ok THEN CodecValue(tag, r.val)
    ELSE IF r.panic THEN CodecFailure("Panic", "")
    ELSE CodecFailure("Error", r.err.kind)

\* Header values: with and without a format and a scheme, zero and nonzero
\* width and face count, every other field a value of its own
HeaderValues ==
    [format : {NoneOpt, SomeOpt(<<37, 0>>)},
     type_size : {<<4, 0>>},
     pixel_width : {Zero32, <<1, 0>>, <<0, 1>>},
     pixel_height : {<<2, 1>>},
     pixel_depth : {<<3, 0>>},
     layer_count : {<<7, 0>>},
     face_count : {Zero32, <<6, 0>>},
     level_count : {<<0, 32768>>},
     supercompression_scheme : {NoneOpt, SomeOpt(<<2, 0>>)},
     index : [dfd_byte_offset : {<<48, 1>>}, dfd_byte_length : {<<52, 2>>},
              kvd_byte_offset : {<<56, 3>>}, kvd_byte_length : {<<60, 4>>},
              sgd_byte_offset : {<<1, 2, 3, 4>>},
              sgd_byte_length : {<<5, 6, 7, 32768>>, Max64}]]

\* basic descriptor header values: dimensions from 1 to 255
BasicValues ==
    [color_model : {NoneOpt, SomeOpt(3)},
     color_primaries : {SomeOpt(10)},
     transfer_function : {NoneOpt, SomeOpt(2)},
     flags : {0, 1},
     texel_block_dimensions : {<<1, 2, 3, 4>>, <<255, 1, 128, 255>>},
     bytes_planes : {<<5, 6, 7, 8, 9, 10, 11, 12>>}]

\* block payloads of 0 to 2 * 16 bytes: known and unknown codes, flag bytes
\* with undefined bits, stored dimensions from 0 to 255
BasicPayloads ==
    {SubSeq(<<model, 10, 2, flags>> \o stored \o [i \in 1..24 |-> (11 * i) % 256], 1, n) :
        model \in {0, 3, 200}, flags \in {1, 254},
        stored \in {<<0, 1, 2, 3>>, <<254, 0, 127, 254>>, <<0, 0, 255, 0>>},
        n \in {0, 15, 16, 17, 32}}

InitCodec ==
    /\ \E h \in HeaderValues :
          \/ \E b \in BasicValues :
                codecTrace = [header |-> <<CodecValue("Header", h)>>,
                              basic |-> <<CodecValue("Basic", b)>>]
          \/ \E payload \in BasicPayloads :
                codecTrace = [header |-> <<CodecValue("Header", h)>>,
                              basic |-> <<CodecBytes("Payload", payload)>>]
    /\ ReaderIdle /\ KvIdle /\ DfdIdle /\ SiIdle /\ SamplesIdle

HeaderAsBytes ==
    /\ Len(codecTrace.header) < MaxCodecSteps
    /\ Last(codecTrace.header).tag = "Header"
    /\ codecTrace' = [codecTrace EXCEPT !.header =
          Append(@, CodecBytes("HeaderBytes", Header_as_bytes(Last(@).value)))]
    /\ UNCHANGED <<readerVars, kvVars, dfdVars, siVars, samplesVars>>

HeaderFromBytes ==
    /\ Len(codecTrace.header) < MaxCodecSteps
    /\ Last(codecTrace.header).tag = "HeaderBytes"
    /\ codecTrace' = [codecTrace EXCEPT !.header =
          Append(@, CodecItem("Header", [panic |-> FALSE] @@ Header_from_bytes(Last(@).bytes)))]
    /\ UNCHANGED <<readerVars, kvVars, dfdVars, siVars, samplesVars>>

BasicAsBytes ==
    /\ Len(codecTrace.basic) < MaxCodecSteps
    /\ Last(codecTrace.basic).tag = "Basic"
    /\ codecTrace' = [codecTrace EXCEPT !.basic =
          Append(@, CodecBytes("BasicBytes",
                               BasicDataFormatDescriptorHeader_as_bytes(Last(@).value)))]
    /\ UNCHANGED <<readerVars, kvVars, dfdVars, siVars, samplesVars>>

BasicFromBytes ==
    /\ Len(codecTrace.basic) < MaxCodecSteps
    /\ Last(codecTrace.basic).tag = "BasicBytes"
    /\ \E overflowChecks \in BOOLEAN :
          codecTrace' = [codecTrace EXCEPT !.basic =
             Append(@, CodecItem("Basic",
                 BasicDataFormatDescriptorHeader_from_bytes(Last(@).bytes, overflowChecks)))]
    /\ UNCHANGED <<readerVars, kvVars, dfdVars, siVars, samplesVars>>

BasicParse ==
    /\ Len(codecTrace.basic) < MaxCodecSteps
    /\ Last(codecTrace.basic).tag = "Payload"
    /\ \E overflowChecks \in BOOLEAN :
          codecTrace' = [codecTrace EXCEPT !.basic =
             Append(@, CodecItem("Descriptor",
                 BasicDataFormatDescriptor_parse(Last(@).bytes, overflowChecks)))]
    /\ UNCHANGED <<readerVars, kvVars, dfdVars, siVars, samplesVars>>

NextCodec == HeaderAsBytes \/ HeaderFromBytes \/ BasicAsBytes \/ BasicFromBytes \/ BasicParse

SpecCodec == InitCodec /\ [][NextCodec]_vars

\* the bytes of a serialised Header that hold the format and the scheme code
FormatCode(bytes) == Field(bytes, 12, 4)
SchemeCode(bytes) == Field(bytes, 44, 4)

\* C11: as_bytes followed by from_bytes gives the value back. For every Header
\* of nonzero pixel_width and face_count, as_bytes gives 80 bytes (an absent
\* format or scheme as code 0) that from_bytes parses to the same Header; for
\* every basic descriptor header, as_bytes stores each dimension 1..255 as
\* value - 1 and from_bytes parses the 16 bytes to the same header.
CodecsRoundTrip ==
    /\ \A k \in 1..(Len(codecTrace.header) - 1) :
          LET t == codecTrace.header
          IN  t[k].tag = "Header" =>
                 /\ t[k + 1].tag = "HeaderBytes" /\ Len(t[k + 1].bytes) = 80
                 /\ ~t[k].value.format.some => FormatCode(t[k + 1].bytes) = <<0, 0, 0, 0>>
                 /\ ~t[k].value.supercompression_scheme.some =>
                       SchemeCode(t[k + 1].bytes) = <<0, 0, 0, 0>>
                 /\ (/\ t[k].value.pixel_width # Zero32
                     /\ t[k].value.face_count # Zero32
                     /\ k + 2 <= Len(t)) => t[k + 2] = t[k]
    /\ \A k \in 1..(Len(codecTrace.basic) - 1) :
          LET t == codecTrace.basic
          IN  t[k].tag = "Basic" =>
                 /\ t[k + 1].tag = "BasicBytes" /\ Len(t[k + 1].bytes) = 16
                 /\ \A i \in 1..4 :
                       t[k + 1].bytes[4 + i] = t[k].value.texel_block_dimensions[i] - 1
                 /\ k + 2 <= Len(t) => t[k + 2] = t[k]

\* a Header without format and scheme and a basic descriptor header with
\* dimensions 1 and 255 both went through as_bytes and from_bytes
CodecsRoundTripWitness ==
    /\ codecTrace # <<>>
    /\ Len(codecTrace.header) >= 3 /\ Len(codecTrace.basic) >= 3
    /\ codecTrace.header[1].tag = "Header" /\ codecTrace.header[3].tag = "Header"
    /\ ~codecTrace.header[1].value.format.some
    /\ ~codecTrace.header[1].value.supercompression_scheme.some
    /\ codecTrace.basic[1].tag = "Basic" /\ codecTrace.basic[3].tag = "Basic"
    /\ codecTrace.basic[1].value.texel_block_dimensions[1] = 255
    /\ codecTrace.basic[1].value.texel_block_dimensions[2] = 1

\* what C12 says of one payload and the item parse made of it
ParsedAsClaimed(payload, item) ==
    IF Len(payload) < 16 THEN item = CodecFailure("Error", "UnexpectedEnd")
    ELSE /\ item.tag = "Descriptor"
         /\ \A i \in 1..4 : item.value.header.texel_block_dimensions[i] = payload[4 + i] + 1
         /\ item.value.sample_information = SubSeq(payload, 17, Len(payload))

\* C12 as stated: BasicDataFormatDescriptor::parse fails with UnexpectedEnd on
\* a payload of fewer than 16 bytes; on every payload of at least 16 bytes it
\* returns, without a panic, a descriptor whose four dimensions are the stored
\* bytes + 1, for every stored byte 0..255, and whose sample_information is
\* the payload from byte 16 on.
BasicParseNeverPanics ==
    \A k \in 1..(Len(codecTrace.basic) - 1) :
        codecTrace.basic[k].tag = "Payload" =>
            ParsedAsClaimed(codecTrace.basic[k].bytes, codecTrace.basic[k + 1])

-----------------------------------------------------------------------------
\* SampleInformationIterator

\* what next() returns, with the data it was called on and the data it leaves
SamplesNone(data) ==
    [some |-> FALSE, panic |-> FALSE, value |-> NoSample, before |-> data, data |-> data]
SamplesPanicked(data) ==
    [some |-> FALSE, panic |-> TRUE, value |-> NoSample, before |-> data, data |-> data]

\* the closure given to map_or in next()
SamplesClosure(self_data, sample_information, rest) ==
    IF rest.panic THEN SamplesPanicked(self_data)
    ELSE [some |-> TRUE, panic |-> FALSE, value |-> sample_information,
          before |-> self_data, data |-> rest.bytes]

\* the map_or of next() stepping over an entry that fails to decode
SamplesMapOrSkipping(self_data, decoded, rest) ==
    IF decoded.tag = "error" /\ decoded.err = "panic" THEN SamplesPanicked(self_data)
    ELSE IF decoded.tag = "error" THEN [SamplesNone(self_data) EXCEPT !.data = rest.bytes]
    ELSE SamplesClosure(self_data, decoded.value, rest)

\* the map_or of next()
SamplesMapOr(self_data, decoded, rest) ==
    IF decoded.tag = "error" /\ decoded.err = "panic" THEN SamplesPanicked(self_data)
    ELSE IF decoded.tag = "error" THEN SamplesNone(self_data)
    ELSE SamplesClosure(self_data, decoded.value, rest)

\* next() once the first 16 bytes are there
SamplesDecode(self_data, bytes, overflowChecks) ==
    SamplesMapOr(self_data,
                 SampleInformation_from_bytes(bytes, overflowChecks),
                 Index(self_data, Lit(SampleInformationLENGTH, USIZE), Lit(Len(self_data), USIZE)))

\* SampleInformationIterator::next
SampleInformationIterator_next(self_data, overflowChecks) ==
    IF ~Get(self_data, Lit(0, USIZE), Lit(SampleInformationLENGTH, USIZE)).some
    THEN SamplesNone(self_data)
    ELSE SamplesDecode(self_data,
                       Get(self_data, Lit(0, USIZE), Lit(SampleInformationLENGTH, USIZE)).val,
                       overflowChecks)

\* entries with bit-length bytes 0, 122, 254 and 255, and a tail of 5 bytes
SampleChoices ==
    {<<0, 0, 0, 0, 1, 2, 3, 4, 0, 0, 0, 0, 1, 0, 0, 0>>,
     <<234, 0, 122, 18, 0, 0, 0, 255, 210, 4, 0, 0, 215, 17, 0, 0>>,
     <<255, 255, 254, 255, 9, 8, 7, 6, 255, 255, 255, 255, 0, 0, 0, 128>>,
     <<16, 0, 255, 1, 0, 0, 0, 0, 0, 0, 0, 0, 255, 255, 255, 255>>,
     <<8, 0, 7, 0, 0>>}

RECURSIVE SampleLists(_)
SampleLists(n) ==
    IF n = 0 THEN {<<>>}
    ELSE {<<>>} \cup {<<e>> \o l : e \in SampleChoices, l \in SampleLists(n - 1)}

InitSamples ==
    /\ samplesSection \in {Flatten(entries) : entries \in SampleLists(MaxSamples)}
    /\ samplesData = samplesSection
    /\ samplesLog = <<>>
    /\ ReaderIdle /\ KvIdle /\ DfdIdle /\ SiIdle /\ CodecIdle

\* the iterator after a call of next() that returned r
SamplesAfter(r) ==
    /\ samplesLog' = Append(samplesLog, r)
    /\ samplesData' = r.data

SamplesNext ==
    /\ Len(samplesLog) < MaxSamples + 2
    /\ \E overflowChecks \in BOOLEAN :
          SamplesAfter(SampleInformationIterator_next(samplesData, overflowChecks))
    /\ UNCHANGED <<samplesSection, readerVars, kvVars, dfdVars, siVars, codecVars>>

NextSamples == SamplesNext

SpecSamples == InitSamples /\ [][NextSamples]_vars

\* the k-th 16 bytes of a stream
Entry(section, k) == SubSeq(section, 16 * (k - 1) + 1, 16 * k)

\* the number of complete 16-byte entries at the start of a stream whose
\* bit-length byte is not 255
RECURSIVE GoodPrefix(_)
GoodPrefix(section) ==
    IF Len(section) < 16 \/ section[3] = 255 THEN 0
    ELSE 1 + GoodPrefix(SubSeq(section, 17, Len(section)))

\* an entry's bytes read field by field
DecodesTo(entry, value) ==
    /\ value.bit_offset = <<entry[1] + 256 * entry[2]>>
    /\ value.bit_length = entry[3] + 1
    /\ value.channel_type = entry[4] % 16
    /\ value.channel_type_qualifiers = entry[4] \div 16
    /\ value.sample_positions = SubSeq(entry, 5, 8)
    /\ to_le_bytes(value.lower) = SubSeq(entry, 9, 12)
    /\ to_le_bytes(value.upper) = SubSeq(entry, 13, 16)

\* C14: the calls of next() yield, in order, the entries of the longest prefix
\* of complete 16-byte entries whose bit-length byte is not 255, each call
\* removing 16 bytes; at the first entry that fails to decode, or with fewer
\* than 16 bytes left, next() returns None and leaves the data as it is, and
\* so does every later call, whatever follows the failing entry.
SamplesStopAtFirstFailure ==
    \A k \in 1..Len(samplesLog) :
        /\ ~samplesLog[k].panic
        /\ samplesLog[k].some <=> k <= GoodPrefix(samplesSection)
        /\ samplesLog[k].some =>
              /\ DecodesTo(Entry(samplesSection, k), samplesLog[k].value)
              /\ samplesLog[k].data = SubSeq(samplesSection, 16 * k + 1, Len(samplesSection))
        /\ ~samplesLog[k].some => samplesLog[k].data = samplesLog[k].before

\* an entry was yielded, the next one has bit-length byte 255, a valid
\* entry follows it, and next() returned None twice
SamplesStopAtFirstFailureWitness ==
    /\ Len(samplesLog) >= 3
    /\ samplesLog[1].some /\ ~samplesLog[2].some /\ ~samplesLog[3].some
    /\ Len(samplesData) >= 32
    /\ samplesData[3] = 255 /\ samplesData[19] # 255

====
